---- MODULE Spec2Model ----
(***************************************************************************)
(* A model of v2i (video-to-context): the command workflow of cli.py       *)
(* (main / run_extraction / detect_source), the media probe and the GIF    *)
(* and video frame extractors of extractor.py.                             *)
(*                                                                         *)
(* The module holds one group of variables per component and one           *)
(* specification per component:                                            *)
(*   SpecGif    extract_frames_gif   (sampling plan and frame walk)        *)
(*   SpecProbe  get_media_info       (PIL first, ffprobe second)           *)
(*   SpecVideo  extract_frames_video (decoder command and output scan)     *)
(*   Spec       main/run_extraction  (the whole command and its cleanup)   *)
(*   SpecCall   the three subprocess.run calls that carry a timeout        *)
(*   SpecExtract  extract_frames     (the choice of the extraction path)   *)
(*   SpecOptimize optimize_frames    (resize_image and the final names)    *)
(* In each specification the variables of the other components keep their  *)
(* idle values.                                                            *)
(*                                                                         *)
(* Numbers.  Times are integers in milliseconds; a rate is a pair          *)
(* <<num, den>> of integers standing for num/den.  Python computes with    *)
(* IEEE doubles; the inputs enumerated below are ones for which the        *)
(* double computation and the exact one give the same integer (for the    *)
(* GIF plan int(i * (total / n)) equals floor(i * total / n) for every     *)
(* total < 30; the first difference is total = 30, n = 22, i = 11).        *)
(***************************************************************************)
EXTENDS Integers, Sequences, FiniteSets, TLC

VARIABLES
    \* ---- extract_frames_gif ----
    gif_frames,       \* number of frames the GIF file holds
    gif_num_frames,   \* the num_frames argument
    gpc,              \* position in extract_frames_gif
    tell,             \* img.tell(): the decode cursor
    total_frames,     \* the frame counter of the first walk
    frame_indices,    \* the sampling plan
    target_i,         \* position of the for loop in frame_indices (1-based)
    current_frame,    \* the extractor's own cursor count
    extracted,        \* artifacts saved so far
    output_paths,     \* saved artifacts: <<[ordinal, frame]>>
    \* ---- get_media_info ----
    ppc,              \* position in get_media_info
    pil_img,          \* what Image.open gave: [kind, durs, breaks]
    pil_status,       \* "untried" | "ok" | "failed"
    p_tell,           \* img.tell() during the frame walk
    p_frame_count,    \* frame_count of the GIF walk
    p_total_duration, \* total_duration of the GIF walk, in ms
    ff_status,        \* how _run_ffprobe ended, "untried" before
    probe_data,       \* the JSON of ffprobe: [streams, format_duration]
    consulted,        \* the backends consulted, in order
    probe_result,     \* [kind |-> "pending" | "None" | "MediaInfo", ...]
    \* ---- extract_frames_video ----
    vpc,              \* position in extract_frames_video
    v_num_frames,     \* the num_frames argument
    v_info,           \* info = get_media_info(video_path)
    v_cmd,            \* the decoder command
    v_dir,            \* output_dir: [exists, files], files the ordinals present
    v_written,        \* ordinals the decoder wrote in this call
    v_invocations,    \* times the decoder was run
    v_result,         \* pending, [kind |-> "paths", paths] or [kind |-> "raise", error]
    \* ---- main / run_extraction ----
    pc,               \* position in the command
    args,             \* [source, info, frames, clean]
    source_path,      \* "none" or the name of the source file
    source_type,      \* "clipboard" | "url" | "file" | "empty" | "not_found"
    is_temp,          \* detect_source's third result
    fs,               \* which files and directories exist
    created,          \* the temporaries this run created
    info,             \* the probe's result
    num_frames,       \* the frame budget passed to extraction
    raw_frames,       \* number of raw frames extraction returned
    final_frames,     \* number of final frames written
    pending,          \* the return or exception in flight
    primary,          \* the outcome of the run proper, before cleanup
    cleanup_ran,      \* cleanup steps tried
    cleanup_failed,   \* cleanup steps whose system call failed
    exit_code,        \* main's return value, Absent while running
    \* ---- the bounded external-process calls ----
    cpc,              \* position in the calling function
    c_site,           \* "clipboard" | "ffprobe" | "ffmpeg": which call
    c_tool,           \* is the executable there
    c_needs,          \* seconds the process needs to finish
    c_rc,             \* the return code it finishes with
    c_runs,           \* times subprocess.run was called
    c_ran,            \* how subprocess.run ended
    c_result,         \* what the calling function gives its caller
    \* ---- extract_frames ----
    epc,              \* position in extract_frames
    e_info,           \* what get_media_info gives for the source
    e_num_frames,     \* the num_frames argument
    e_ffmpeg,         \* is the decoder (ffmpeg) installed
    e_disk_ok,        \* can files be written to output_dir
    e_lookups,        \* times check_ffmpeg() was asked
    e_invocations,    \* times the decoder was run
    e_dir_made,       \* os.makedirs(output_dir) was reached
    e_files,          \* number of files written to output_dir
    e_result,         \* pending, [kind |-> "paths", n] or [kind |-> "raise", error]
    \* ---- optimize_frames ----
    opc,              \* position in optimize_frames
    o_frames,         \* frame_paths: the raw frames' ordinals, in order
    o_size,           \* <<width, height>> of the raw frames
    o_max_size,       \* the max_size argument
    o_format,         \* the output_format argument
    o_i,              \* the loop's index i (enumerate from 1)
    o_target,         \* the size resize_image decided on for the current frame
    o_saved,          \* the files written: <<[ordinal, ext, from, size]>>
    o_output_paths,   \* the list being returned: <<[ordinal, ext]>>
    o_result          \* pending, "paths" or "raise"

gifVars == <<gif_frames, gif_num_frames, gpc, tell, total_frames,
             frame_indices, target_i, current_frame, extracted, output_paths>>

probeVars == <<ppc, pil_img, pil_status, p_tell, p_frame_count, p_total_duration,
               ff_status, probe_data, consulted, probe_result>>

videoVars == <<vpc, v_num_frames, v_info, v_cmd, v_dir, v_written, v_invocations,
               v_result>>

runVars == <<pc, args, source_path, source_type, is_temp, fs, created, info,
             num_frames, raw_frames, final_frames, pending, primary, cleanup_ran,
             cleanup_failed, exit_code>>

callVars == <<cpc, c_site, c_tool, c_needs, c_rc, c_runs, c_ran, c_result>>

extractVars == <<epc, e_info, e_num_frames, e_ffmpeg, e_disk_ok, e_lookups,
                 e_invocations, e_dir_made, e_files, e_result>>

optVars == <<opc, o_frames, o_size, o_max_size, o_format, o_i, o_target, o_saved,
             o_output_paths, o_result>>

vars == <<gifVars, probeVars, videoVars, runVars, callVars, extractVars, optVars>>

\* the variables a component leaves alone
notGif == <<probeVars, videoVars, runVars, callVars, extractVars, optVars>>
notProbe == <<gifVars, videoVars, runVars, callVars, extractVars, optVars>>
notVideo == <<gifVars, probeVars, runVars, callVars, extractVars, optVars>>
notRun == <<gifVars, probeVars, videoVars, callVars, extractVars, optVars>>
notExtract == <<gifVars, probeVars, videoVars, runVars, callVars, optVars>>
notOpt == <<gifVars, probeVars, videoVars, runVars, callVars, extractVars>>
notCall == <<gifVars, probeVars, videoVars, runVars, extractVars, optVars>>

\* ---------------------------------------------------------------- bounds
MaxGifFrames == 10
MaxRequest == 6
\* highest ordinal of a file already in the output directory
MaxOldFile == 3
\* highest ordinal of a raw frame handed to the optimizer
MaxRawOrdinal == 3

Min(a, b) == IF a <= b THEN a ELSE b

\* ------------------------------------------------- extract_frames_gif
\* list(range(total_frames))
AllIndicesFromOne(total) == [i \in 1..total |-> i]
AllIndices(total) == [i \in 1..total |-> i - 1]

\* step = total_frames / num_frames; [int(i * step) for i in range(num_frames)]
UniformIndicesFromOne(total, n) == [i \in 1..n |-> (i * total) \div n]
UniformIndices(total, n) == [i \in 1..n |-> ((i - 1) * total) \div n]

FrameIndices(total, n) ==
    IF total <= n THEN AllIndices(total) ELSE UniformIndices(total, n)

\* img.seek(img.tell() + 1) succeeds iff a next frame exists; on EOFError
\* the cursor stays where it was.
SeekNextOkPastEnd(cursor, frames) == cursor < frames
SeekNextOk(cursor, frames) == cursor + 1 < frames

\* while current_frame < target_frame
SeekNeededOffByOne(cur, target) == cur + 1 < target
SeekNeeded(cur, target) == cur < target

\* f"{prefix}_{extracted + 1:03d}.png"
ArtifactOrdinal(done) == done + 1

GifIdle ==
    /\ gif_frames = 1
    /\ gif_num_frames = 1
    /\ gpc = "idle"
    /\ tell = 0
    /\ total_frames = 0
    /\ frame_indices = <<>>
    /\ target_i = 1
    /\ current_frame = 0
    /\ extracted = 0
    /\ output_paths = <<>>

GifInit ==
    /\ gif_frames \in 1..MaxGifFrames
    /\ gif_num_frames \in 1..MaxRequest
    /\ gpc = "open"
    /\ tell = 0
    /\ total_frames = 0
    /\ frame_indices = <<>>
    /\ target_i = 1
    /\ current_frame = 0
    /\ extracted = 0
    /\ output_paths = <<>>

\* with Image.open(gif_path) as img: total_frames = 0
GifOpen ==
    /\ gpc = "open"
    /\ tell' = 0
    /\ total_frames' = 0
    /\ gpc' = "count"
    /\ UNCHANGED <<notGif, gif_frames, gif_num_frames, frame_indices, target_i,
                   current_frame, extracted, output_paths>>

\* one turn of: while True: total_frames += 1; img.seek(img.tell() + 1)
GifCount ==
    /\ gpc = "count"
    /\ total_frames' = total_frames + 1
    /\ IF SeekNextOk(tell, gif_frames)
       THEN tell' = tell + 1 /\ gpc' = "count"
       ELSE tell' = tell /\ gpc' = "plan"
    /\ UNCHANGED <<notGif, gif_frames, gif_num_frames, frame_indices, target_i,
                   current_frame, extracted, output_paths>>

\* the sampling plan
GifPlan ==
    /\ gpc = "plan"
    /\ frame_indices' = FrameIndices(total_frames, gif_num_frames)
    /\ gpc' = "rewind"
    /\ UNCHANGED <<notGif, gif_frames, gif_num_frames, tell, total_frames, target_i,
                   current_frame, extracted, output_paths>>

\* img.seek(0); current_frame = 0; extracted = 0; the for loop starts
GifRewind ==
    /\ gpc = "rewind"
    /\ tell' = 0
    /\ current_frame' = 0
    /\ extracted' = 0
    /\ target_i' = 1
    /\ gpc' = IF Len(frame_indices) = 0 THEN "done" ELSE "seek"
    /\ UNCHANGED <<notGif, gif_frames, gif_num_frames, total_frames, frame_indices,
                   output_paths>>

\* one turn of: while current_frame < target_frame: img.seek(img.tell() + 1)
GifSeek ==
    /\ gpc = "seek"
    /\ SeekNeeded(current_frame, frame_indices[target_i])
    /\ IF SeekNextOk(tell, gif_frames)
       THEN tell' = tell + 1 /\ current_frame' = current_frame + 1 /\ gpc' = "seek"
       ELSE tell' = tell /\ current_frame' = current_frame /\ gpc' = "save"
    /\ UNCHANGED <<notGif, gif_frames, gif_num_frames, total_frames, frame_indices,
                   target_i, extracted, output_paths>>

\* the seek loop ends normally
GifSeekDone ==
    /\ gpc = "seek"
    /\ ~SeekNeeded(current_frame, frame_indices[target_i])
    /\ gpc' = "save"
    /\ UNCHANGED <<notGif, gif_frames, gif_num_frames, tell, total_frames, frame_indices,
                   target_i, current_frame, extracted, output_paths>>

\* save the frame under the cursor; extracted += 1; break or next target
GifSave ==
    /\ gpc = "save"
    /\ output_paths' = Append(output_paths,
                              [ordinal |-> ArtifactOrdinal(extracted), frame |-> tell])
    /\ extracted' = extracted + 1
    /\ IF extracted + 1 >= gif_num_frames \/ target_i = Len(frame_indices)
       THEN gpc' = "done" /\ target_i' = target_i
       ELSE gpc' = "seek" /\ target_i' = target_i + 1
    /\ UNCHANGED <<notGif, gif_frames, gif_num_frames, tell, total_frames, frame_indices,
                   current_frame>>

GifNext ==
    \/ GifOpen
    \/ GifCount
    \/ GifPlan
    \/ GifRewind
    \/ GifSeek
    \/ GifSeekDone
    \/ GifSave

\* ------------------------------------------------ claims on the GIF path
PlannedPcs == {"rewind", "seek", "save", "done"}

StrictlyIncreasing(s) == \A i \in 1..(Len(s) - 1) : s[i] < s[i + 1]

\* C4: for every total_frames >= 1 and requested n >= 1 with
\* total_frames <= n, the GIF sampling plan is exactly the sequence
\* 0, 1, ..., total_frames - 1 in increasing order.
C4_PlanSelectsEveryFrame ==
    (gpc \in PlannedPcs /\ total_frames <= gif_num_frames) =>
        /\ total_frames >= 1
        /\ Len(frame_indices) = total_frames
        /\ \A k \in 1..total_frames : frame_indices[k] = k - 1

C4_Witness ==
    /\ gpc = "done"
    /\ total_frames = 3
    /\ gif_num_frames = 5
    /\ frame_indices = <<0, 1, 2>>

\* C5: for every total_frames > n >= 1 the GIF sampling plan has length
\* exactly n, is strictly increasing, starts with 0 and has every element
\* < total_frames; for total_frames = 10 and n = 3 it is 0, 3, 6.
C5_UniformPlanShape ==
    (gpc \in PlannedPcs /\ total_frames > gif_num_frames) =>
        /\ Len(frame_indices) = gif_num_frames
        /\ StrictlyIncreasing(frame_indices)
        /\ frame_indices[1] = 0
        /\ \A k \in 1..Len(frame_indices) : frame_indices[k] < total_frames
        /\ (total_frames = 10 /\ gif_num_frames = 3) => frame_indices = <<0, 3, 6>>

C5_Witness ==
    /\ gpc = "done"
    /\ total_frames = 10
    /\ gif_num_frames = 3
    /\ frame_indices = <<0, 3, 6>>

\* the k-th index of the plan, written out from gif_frames and the request
PlannedIndex(k) ==
    IF gif_frames <= gif_num_frames
    THEN k - 1
    ELSE ((k - 1) * gif_frames) \div gif_num_frames

\* C6: extracting a T-frame GIF with request n yields exactly min(T, n)
\* artifacts with ordinals 1..min(T, n) in plan order; the artifact with
\* ordinal k holds the frame at the k-th planned index, the decode cursor
\* being on that index when the frame is saved; a 10-frame GIF with n = 4
\* gives ordinals 1..4 holding frames 0, 2, 5, 7.
C6_GifArtifacts ==
    /\ gpc = "save" =>
          /\ tell = frame_indices[target_i]
          /\ tell = PlannedIndex(extracted + 1)
    /\ gpc = "done" =>
          /\ Len(output_paths) = Min(gif_frames, gif_num_frames)
          /\ \A k \in 1..Len(output_paths) :
                /\ output_paths[k].ordinal = k
                /\ output_paths[k].frame = PlannedIndex(k)
          /\ (gif_frames = 10 /\ gif_num_frames = 4) =>
                output_paths = << [ordinal |-> 1, frame |-> 0],
                                  [ordinal |-> 2, frame |-> 2],
                                  [ordinal |-> 3, frame |-> 5],
                                  [ordinal |-> 4, frame |-> 7] >>

C6_Witness ==
    /\ gpc = "done"
    /\ gif_frames = 10
    /\ gif_num_frames = 4
    /\ Len(output_paths) = 4
    /\ output_paths[4] = [ordinal |-> 4, frame |-> 7]

\* C21: over the whole extract_frames_gif call, from opening the file
\* through the count walk and the walk over the planned indices, the decode
\* cursor never moves backward.
C21_CursorNeverBackward == [][tell' >= tell]_vars

\* C21 as the code has it: each of the two walks moves the cursor forward
\* only, one frame at a time and never past the last frame; between the
\* walks img.seek(0) takes it back to frame 0, once, and that is the only
\* backward move.
C21_ForwardExceptRewind ==
    [][/\ tell' < gif_frames
       /\ tell' <= tell + 1
       /\ tell' < tell => (gpc = "rewind" /\ tell' = 0 /\ gpc' # "rewind")
       /\ gpc = "rewind" => tell' = 0]_vars

C21_Witness ==
    /\ gpc = "done"
    /\ gif_frames = 10
    /\ total_frames = 10
    /\ gif_num_frames = 3
    /\ tell = 6

\* ----------------------------------------------------- get_media_info
\* An optional field (a key of a dict, a value that may be None) is a
\* sequence: <<>> when absent, <<v>> when present.
Absent == <<>>
Some(v) == <<v>>
GetOr(opt, default) == IF opt = <<>> THEN default ELSE opt[1]

\* bound of the GIF files the probe walks
MaxProbeFrames == 3

\* img.info.get("duration", 100)
DefaultFrameMs == 100

\* A frame-rate string is the sequence of its "/"-separated parts; a part
\* is a numeric literal or text float() rejects.
Num(v) == [ok |-> TRUE, v |-> v]
BadPart == [ok |-> FALSE, v |-> 0]

Fps30 == <<30, 1>>
Fps10 == <<10, 1>>
Fps0 == <<0, 1>>

NoneResult == [kind |-> "None"]
Pending == [kind |-> "pending"]

MediaInfo(w, h, dur, fc, rate, fmt, cdc) ==
    [kind |-> "MediaInfo", width |-> w, height |-> h, duration |-> dur,
     frame_count |-> fc, fps |-> rate, format |-> fmt, codec |-> cdc]

\* --- the inputs: what the file and the tools can present
SeqsUpTo(S, n) == UNION {[1..k -> S] : k \in 1..n}

FrameDurations == {Absent, Some(0), Some(40)}

PilOutcomes ==
    {[kind |-> "fail", durs |-> <<>>, breaks |-> 0],
     [kind |-> "image", durs |-> <<>>, breaks |-> 0]}
    \cup
    UNION {{[kind |-> "gif", durs |-> d, breaks |-> b] : b \in 0..Min(Len(d), 2)} :
              d \in SeqsUpTo(FrameDurations, MaxProbeFrames)}

RateStrings ==
    {<<Num(30), Num(1)>>, <<Num(30000), Num(1001)>>, <<Num(1), Num(2)>>,
     <<Num(0), Num(0)>>, <<BadPart, Num(0)>>, <<Num(30), BadPart>>,
     <<Num(1), Num(2), Num(3)>>, <<Num(25)>>, <<BadPart>>}

VideoStreams ==
    [codec_type : {"video"},
     width : {Absent, Some(640)},
     height : {Some(480)},
     codec_name : {Absent, Some("h264"), Some("gif")},
     duration : {Absent, Some(0), Some(125), Some(1000), Some(20000)},
     nb_frames : {Absent, Some(0), Some(24)},
     r_frame_rate : {Absent} \cup {Some(r) : r \in RateStrings}]

AudioStream ==
    [codec_type |-> "audio", width |-> Absent, height |-> Absent,
     codec_name |-> Some("aac"), duration |-> Some(3000), nb_frames |-> Absent,
     r_frame_rate |-> Some(<<Num(0), Num(0)>>)]

SecondVideoStream ==
    [codec_type |-> "video", width |-> Some(320), height |-> Some(240),
     codec_name |-> Some("mjpeg"), duration |-> Some(3000), nb_frames |-> Some(1),
     r_frame_rate |-> Some(<<Num(90000), Num(1)>>)]

StreamLists ==
    {<<>>, <<AudioStream>>}
    \cup {<<v>> : v \in VideoStreams}
    \cup {<<AudioStream, v>> : v \in VideoStreams}
    \cup {<<v, SecondVideoStream>> : v \in VideoStreams}

ProbeDatas ==
    [present : {TRUE}, streams : StreamLists, format_duration : {Absent, Some(2500)}]

NoData == [present |-> FALSE, streams |-> <<>>, format_duration |-> Absent]

\* how one run of the ffprobe command can go
FfprobeRuns ==
    {[available |-> FALSE, timed_out |-> FALSE, rc_ok |-> FALSE, json_ok |-> FALSE],
     [available |-> TRUE, timed_out |-> TRUE, rc_ok |-> FALSE, json_ok |-> FALSE],
     [available |-> TRUE, timed_out |-> FALSE, rc_ok |-> FALSE, json_ok |-> TRUE],
     [available |-> TRUE, timed_out |-> FALSE, rc_ok |-> TRUE, json_ok |-> FALSE],
     [available |-> TRUE, timed_out |-> FALSE, rc_ok |-> TRUE, json_ok |-> TRUE]}

\* --- the computations
\* _run_ffprobe: None unless the tool exists, ends in time with returncode 0
\* and prints JSON
FfprobeYieldsIgnoringReturncode(run) ==
    run.available /\ ~run.timed_out /\ run.json_ok
FfprobeYields(run) ==
    run.available /\ ~run.timed_out /\ run.rc_ok /\ run.json_ok

FfprobeStatus(run) ==
    IF ~run.available THEN "absent"
    ELSE IF run.timed_out THEN "timeout"
    ELSE IF ~run.rc_ok THEN "nonzero"
    ELSE IF ~run.json_ok THEN "badjson"
    ELSE "ok"

\* the GIF branch's result
PilGifInfo(fc, total_ms) ==
    MediaInfo(640, 480, total_ms, fc,
              IF total_ms > 0 THEN <<fc * 1000, total_ms>> ELSE Fps10,
              "gif", Absent)

\* the static image branch's result
PilImageInfo == MediaInfo(640, 480, 0, 1, Fps0, "image", Absent)

\* for stream in streams: if codec_type == "video": break  (0: none)
FirstVideoStream(streams) ==
    IF \E i \in 1..Len(streams) : streams[i].codec_type = "video"
    THEN CHOOSE i \in 1..Len(streams) :
            /\ streams[i].codec_type = "video"
            /\ \A j \in 1..(i - 1) : streams[j].codec_type # "video"
    ELSE 0

\* duration from the stream, else from the container, else 0
StreamDuration(stream, format_duration) ==
    IF stream.duration # Absent THEN stream.duration[1]
    ELSE IF format_duration # Absent THEN format_duration[1]
    ELSE 0

\* int(video_stream.get("nb_frames", 0))
NbFramesDefaultOne(stream) == GetOr(stream.nb_frames, 1)
NbFrames(stream) == GetOr(stream.nb_frames, 0)

\* the parse of r_frame_rate, default "30/1"; every ValueError gives 30.0
ParseFpsZeroForBad(rate) ==
    LET parts == GetOr(rate, <<Num(30), Num(1)>>) IN
    IF Len(parts) = 2 /\ parts[1].ok /\ parts[2].ok /\ parts[2].v # 0
    THEN <<parts[1].v, parts[2].v>>
    ELSE IF Len(parts) = 1 /\ parts[1].ok THEN <<parts[1].v, 1>>
    ELSE Fps0
ParseFps(rate) ==
    LET parts == GetOr(rate, <<Num(30), Num(1)>>) IN
    IF Len(parts) >= 2
    THEN IF Len(parts) # 2 THEN Fps30
         ELSE IF ~parts[2].ok THEN Fps30
         ELSE IF parts[2].v = 0 THEN Fps30
         ELSE IF ~parts[1].ok THEN Fps30
         ELSE <<parts[1].v, parts[2].v>>
    ELSE IF parts[1].ok THEN <<parts[1].v, 1>> ELSE Fps30

\* int(duration * fps): the product truncated
RoundOfProduct(dur_ms, rate) ==
    LET n == dur_ms * rate[1]
        d == 1000 * rate[2]
        q == n \div d
        r == n % d
    IN IF 2 * r > d \/ (2 * r = d /\ q % 2 = 1) THEN q + 1 ELSE q
IntOfProduct(dur_ms, rate) == (dur_ms * rate[1]) \div (1000 * rate[2])

\* if frame_count == 0 and duration > 0: frame_count = int(duration * fps)
DerivedFrameCount(nb, dur_ms, rate) ==
    IF nb = 0 /\ dur_ms > 0 THEN IntOfProduct(dur_ms, rate) ELSE nb

\* the ffprobe branch's result for the chosen video stream
FfprobeInfo(stream, format_duration) ==
    LET dur == StreamDuration(stream, format_duration)
        rate == ParseFps(stream.r_frame_rate)
        cdc == GetOr(stream.codec_name, "unknown")
    IN MediaInfo(GetOr(stream.width, 0), GetOr(stream.height, 0), dur,
                 DerivedFrameCount(NbFrames(stream), dur, rate), rate,
                 IF cdc = "gif" THEN "gif" ELSE "video", Some(cdc))

ProbeRest ==
    /\ pil_img = [kind |-> "none", durs |-> <<>>, breaks |-> 0]
    /\ pil_status = "untried"
    /\ p_tell = 0
    /\ p_frame_count = 0
    /\ p_total_duration = 0
    /\ ff_status = "untried"
    /\ probe_data = NoData
    /\ consulted = <<>>
    /\ probe_result = Pending

ProbeIdle == ppc = "idle" /\ ProbeRest

ProbeInit == ppc = "start" /\ ProbeRest

\* if not os.path.exists(path): return None
ProbeMissing ==
    /\ ppc = "start"
    /\ probe_result' = NoneResult
    /\ ppc' = "done"
    /\ UNCHANGED <<notProbe, pil_img, pil_status, p_tell, p_frame_count,
                   p_total_duration, ff_status, probe_data, consulted>>

ProbeExists ==
    /\ ppc = "start"
    /\ ppc' = "pil"
    /\ UNCHANGED <<notProbe, pil_img, pil_status, p_tell, p_frame_count,
                   p_total_duration, ff_status, probe_data, consulted, probe_result>>

\* with Image.open(path) as img: raises, or gives an image or a GIF
ProbePilOpen ==
    /\ ppc = "pil"
    /\ consulted' = Append(consulted, "pil")
    /\ \E img \in PilOutcomes :
          /\ pil_img' = img
          /\ \/ /\ img.kind = "fail"
                /\ pil_status' = "failed"
                /\ ppc' = "ffprobe"
                /\ probe_result' = probe_result
             \/ /\ img.kind = "image"
                /\ pil_status' = "ok"
                /\ ppc' = "done"
                /\ probe_result' = PilImageInfo
             \/ /\ img.kind = "gif"
                /\ pil_status' = "untried"
                /\ ppc' = "pil_walk"
                /\ probe_result' = probe_result
    /\ p_tell' = 0
    /\ p_frame_count' = 0
    /\ p_total_duration' = 0
    /\ UNCHANGED <<notProbe, ff_status, probe_data>>

\* one turn of the frame walk: frame_count += 1; total_duration += duration;
\* img.seek(img.tell() + 1).  The seek moves on, raises EOFError (the walk
\* is over) or, on a damaged file, raises another error, which the outer
\* except Exception catches.
ProbePilWalk ==
    /\ ppc = "pil_walk"
    /\ p_frame_count' = p_frame_count + 1
    /\ p_total_duration' =
          p_total_duration + GetOr(pil_img.durs[p_tell + 1], DefaultFrameMs)
    /\ IF pil_img.breaks = p_tell + 1
       THEN /\ p_tell' = p_tell
            /\ pil_status' = "failed"
            /\ ppc' = "ffprobe"
       ELSE IF SeekNextOk(p_tell, Len(pil_img.durs))
       THEN /\ p_tell' = p_tell + 1
            /\ pil_status' = pil_status
            /\ ppc' = "pil_walk"
       ELSE /\ p_tell' = p_tell
            /\ pil_status' = pil_status
            /\ ppc' = "pil_gif"
    /\ UNCHANGED <<notProbe, pil_img, ff_status, probe_data, consulted, probe_result>>

\* return MediaInfo(..., format="gif")
ProbePilGif ==
    /\ ppc = "pil_gif"
    /\ pil_status' = "ok"
    /\ probe_result' = PilGifInfo(p_frame_count, p_total_duration)
    /\ ppc' = "done"
    /\ UNCHANGED <<notProbe, pil_img, p_tell, p_frame_count, p_total_duration,
                   ff_status, probe_data, consulted>>

\* probe_data = _run_ffprobe(path); if probe_data: ... else return None
ProbeRunFfprobe ==
    /\ ppc = "ffprobe"
    /\ consulted' = Append(consulted, "ffprobe")
    /\ \E run \in FfprobeRuns, data \in ProbeDatas :
          /\ ff_status' = FfprobeStatus(run)
          /\ IF FfprobeYields(run)
             THEN /\ probe_data' = data
                  /\ ppc' = "parse"
                  /\ probe_result' = probe_result
             ELSE /\ probe_data' = NoData
                  /\ ppc' = "done"
                  /\ probe_result' = NoneResult
    /\ UNCHANGED <<notProbe, pil_img, pil_status, p_tell, p_frame_count,
                   p_total_duration>>

\* pick the first video stream; none: return None; else return MediaInfo
ProbeParse ==
    /\ ppc = "parse"
    /\ LET i == FirstVideoStream(probe_data.streams) IN
          IF i = 0
          THEN /\ probe_result' = NoneResult
               /\ ff_status' = "no_video"
          ELSE /\ probe_result' =
                     FfprobeInfo(probe_data.streams[i], probe_data.format_duration)
               /\ ff_status' = ff_status
    /\ ppc' = "done"
    /\ UNCHANGED <<notProbe, pil_img, pil_status, p_tell, p_frame_count,
                   p_total_duration, probe_data, consulted>>

ProbeNext ==
    \/ ProbeMissing
    \/ ProbeExists
    \/ ProbePilOpen
    \/ ProbePilWalk
    \/ ProbePilGif
    \/ ProbeRunFfprobe
    \/ ProbeParse

\* ---------------------------------------------------- claims on the probe
MediaInfoFields ==
    {"kind", "width", "height", "duration", "frame_count", "fps", "format", "codec"}

ProbeReturned == ppc = "done" /\ probe_result.kind = "MediaInfo"

\* the stream the external probe's result was read from
ProbedStream == probe_data.streams[FirstVideoStream(probe_data.streams)]

FromFfprobe == ProbeReturned /\ pil_status # "ok"

\* C8: the probe tries its two backends in fixed order and the first
\* success wins: a successful image-library introspection is returned and
\* the external probe is not consulted; the external probe is consulted
\* only after introspection failed; the probe ends with a complete MediaInfo
\* or with None, None exactly when neither backend succeeded (file missing,
\* tool absent, failing or timing out, or no video stream).
C8_ProbeOrder ==
    /\ (\E i \in 1..Len(consulted) : consulted[i] = "ffprobe") =>
          (consulted = <<"pil", "ffprobe">> /\ pil_status = "failed")
    /\ pil_status = "ok" =>
          /\ consulted = <<"pil">>
          /\ ff_status = "untried"
          /\ ppc = "done"
          /\ probe_result =
                (IF pil_img.kind = "image" THEN PilImageInfo
                 ELSE PilGifInfo(p_frame_count, p_total_duration))
    /\ ppc # "done" => probe_result = Pending
    /\ ppc = "done" =>
          /\ probe_result.kind \in {"MediaInfo", "None"}
          /\ probe_result.kind = "MediaInfo" =>
                /\ DOMAIN probe_result = MediaInfoFields
                /\ pil_status = "ok" \/ ff_status = "ok"
          /\ probe_result.kind = "None" =>
                /\ pil_status # "ok"
                /\ \/ consulted = <<>>
                   \/ ff_status \in {"absent", "timeout", "nonzero", "badjson", "no_video"}

C8_Witness ==
    /\ ppc = "done"
    /\ pil_img.kind = "gif"
    /\ consulted = <<"pil", "ffprobe">>
    /\ probe_result.kind = "MediaInfo"
    /\ probe_result.format = "gif"

\* C9 as stated: every MediaInfo the probe returns has frame_count >= 1.
C9_FrameCountAtLeastOne == ProbeReturned => probe_result.frame_count >= 1

\* C9 as amended: every MediaInfo the probe returns has frame_count >= 0;
\* it is >= 1 when image-library introspection produced it (1 for an image,
\* the number of frames for a GIF); one the external probe produced has
\* frame_count 0 exactly when nb_frames is absent or zero and
\* duration * fps < 1 (duration 0 included).
C9_FrameCountAmended ==
    ProbeReturned =>
        /\ probe_result.frame_count >= 0
        /\ pil_status = "ok" =>
              /\ probe_result.frame_count >= 1
              /\ pil_img.kind = "image" => probe_result.frame_count = 1
              /\ pil_img.kind = "gif" => probe_result.frame_count = Len(pil_img.durs)
        /\ pil_status # "ok" =>
              (probe_result.frame_count = 0 <=>
                  /\ GetOr(ProbedStream.nb_frames, 0) = 0
                  /\ probe_result.duration * probe_result.fps[1]
                        < 1000 * probe_result.fps[2])

C9_Witness ==
    /\ FromFfprobe
    /\ probe_result.format = "video"
    /\ probe_result.duration > 0
    /\ probe_result.frame_count = 0

\* C10 as stated: with nb_frames absent or zero the probe derives
\* frame_count as duration * fps rounded to the nearest integer.
C10_FrameCountRounded ==
    (FromFfprobe /\ GetOr(ProbedStream.nb_frames, 0) = 0) =>
        probe_result.frame_count =
            RoundOfProduct(probe_result.duration, probe_result.fps)

\* C10 as amended: with nb_frames absent or zero the probe derives
\* frame_count as int(duration * fps), the product truncated to an integer
\* and not rounded to the nearest one, when duration > 0
\* (frame_count <= duration * fps < frame_count + 1), and leaves it 0
\* otherwise.
C10_FrameCountTruncated ==
    (FromFfprobe /\ GetOr(ProbedStream.nb_frames, 0) = 0) =>
        LET fc == probe_result.frame_count
            n == probe_result.duration * probe_result.fps[1]
            d == 1000 * probe_result.fps[2]
        IN /\ probe_result.duration > 0 => (fc * d <= n /\ n < (fc + 1) * d)
           /\ probe_result.duration <= 0 => fc = 0

C10_Witness ==
    /\ FromFfprobe
    /\ ProbedStream.nb_frames = Absent
    /\ probe_result.duration = 125
    /\ probe_result.fps = <<30, 1>>
    /\ probe_result.frame_count = 3

\* C18: the probe parses the stream's frame rate so that a ratio num/den
\* with a non-zero denominator gives num/den (30000/1001, about 29.97) and
\* a plain number gives that number; a value with a part float() rejects,
\* with more than one "/", or with a zero denominator gives exactly 30.0,
\* as does a missing value; in no case does the probe fail: it returns a
\* MediaInfo.
C18_FpsParse ==
    /\ (ppc = "done" /\ ff_status = "ok") => probe_result.kind = "MediaInfo"
    /\ FromFfprobe =>
          LET rate == ProbedStream.r_frame_rate
              fps == probe_result.fps
          IN /\ rate = Absent => fps = <<30, 1>>
             /\ rate # Absent =>
                   LET parts == rate[1] IN
                   /\ (Len(parts) = 2 /\ parts[1].ok /\ parts[2].ok /\ parts[2].v # 0)
                         => fps = <<parts[1].v, parts[2].v>>
                   /\ (Len(parts) = 1 /\ parts[1].ok) => fps = <<parts[1].v, 1>>
                   /\ (Len(parts) = 2 /\ parts[2].ok /\ parts[2].v = 0)
                         => fps = <<30, 1>>
                   /\ (\E i \in 1..Len(parts) : ~parts[i].ok) => fps = <<30, 1>>
                   /\ Len(parts) > 2 => fps = <<30, 1>>

C18_Witness ==
    /\ FromFfprobe
    /\ ProbedStream.r_frame_rate = Some(<<Num(0), Num(0)>>)
    /\ ProbedStream.nb_frames = Absent
    /\ probe_result.fps = <<30, 1>>
    /\ probe_result.duration = 1000
    /\ probe_result.frame_count = 30

\* ------------------------------------------------ extract_frames_video
\* the MediaInfo values extract_frames_video's own probe can give it
VideoProbeStreams ==
    {s \in VideoStreams :
        /\ s.width = Some(640)
        /\ s.codec_name = Some("h264")
        /\ s.r_frame_rate \in {Absent, Some(<<Num(30000), Num(1001)>>), Some(<<Num(1), Num(2)>>)}}

VideoInfos == {FfprobeInfo(s, Absent) : s \in VideoProbeStreams}

NoCommand == [filter |-> "none", select_n |-> 0, fps |-> Fps0, vsync_vfr |-> FALSE,
              frames_cap |-> 0]

\* if info.duration <= 0
FirstFramesWanted(dur_ms) == dur_ms <= 0

\* target_fps = max(0.1, num_frames / info.duration)
TargetFpsUnclamped(n, dur_ms) == <<n * 1000, dur_ms>>
TargetFps(n, dur_ms) ==
    IF n * 1000 * 10 < dur_ms THEN <<1, 10>> ELSE <<n * 1000, dur_ms>>

\* the ffmpeg command line
DecoderCommand(n, dur_ms) ==
    IF FirstFramesWanted(dur_ms)
    THEN [filter |-> "select", select_n |-> n, fps |-> Fps0, vsync_vfr |-> TRUE,
          frames_cap |-> n]
    ELSE [filter |-> "fps", select_n |-> 0, fps |-> TargetFps(n, dur_ms),
          vsync_vfr |-> FALSE, frames_cap |-> n]

\* for i in range(1, num_frames + 1): if os.path.exists(frame_path): append
RECURSIVE ScanFrom(_, _, _)
ScanFrom(i, n, files) ==
    IF i > n THEN <<>>
    ELSE (IF i \in files THEN <<i>> ELSE <<>>) \o ScanFrom(i + 1, n, files)

CollectOutputFiles(n, files) == ScanFrom(1, n, files)

VideoRest ==
    /\ v_num_frames = 1
    /\ v_info = NoneResult
    /\ v_cmd = NoCommand
    /\ v_dir = [exists |-> FALSE, files |-> {}]
    /\ v_written = {}
    /\ v_invocations = 0
    /\ v_result = Pending

VideoIdle == vpc = "idle" /\ VideoRest

VideoInit ==
    /\ vpc = "check"
    /\ v_num_frames \in 1..MaxRequest
    /\ v_info = NoneResult
    /\ v_cmd = NoCommand
    /\ v_dir \in {[exists |-> FALSE, files |-> {}]}
                 \cup {[exists |-> TRUE, files |-> f] : f \in SUBSET (1..MaxOldFile)}
    /\ v_written = {}
    /\ v_invocations = 0
    /\ v_result = Pending

\* if not check_ffmpeg(): raise RuntimeError
VideoMissingTool ==
    /\ vpc = "check"
    /\ v_result' = [kind |-> "raise", error |-> "MissingTool"]
    /\ vpc' = "done"
    /\ UNCHANGED <<notVideo, v_num_frames, v_info, v_cmd, v_dir, v_written,
                   v_invocations>>

\* os.makedirs(output_dir, exist_ok=True)
VideoMakedirs ==
    /\ vpc = "check"
    /\ v_dir' = [v_dir EXCEPT !.exists = TRUE]
    /\ vpc' = "probe"
    /\ UNCHANGED <<notVideo, v_num_frames, v_info, v_cmd, v_written, v_invocations,
                   v_result>>

\* info = get_media_info(video_path); if not info: raise ValueError
VideoProbe ==
    /\ vpc = "probe"
    /\ \E probed \in VideoInfos \cup {NoneResult} :
          /\ v_info' = probed
          /\ IF probed = NoneResult
             THEN /\ v_result' = [kind |-> "raise", error |-> "NotReadable"]
                  /\ vpc' = "done"
             ELSE /\ v_result' = v_result
                  /\ vpc' = "command"
    /\ UNCHANGED <<notVideo, v_num_frames, v_cmd, v_dir, v_written, v_invocations>>

\* the command is built from info.duration and num_frames
VideoCommand ==
    /\ vpc = "command"
    /\ v_cmd' = DecoderCommand(v_num_frames, v_info.duration)
    /\ vpc' = "run"
    /\ UNCHANGED <<notVideo, v_num_frames, v_info, v_dir, v_written, v_invocations,
                   v_result>>

\* subprocess.run(cmd, timeout=120): the decoder writes its first k frames,
\* k within its -frames:v cap, over what is there (-y), and ends (its
\* return code is not read) or is stopped by the timeout
VideoRun ==
    /\ vpc = "run"
    /\ v_invocations' = v_invocations + 1
    /\ \E k \in 0..v_cmd.frames_cap, timed_out \in BOOLEAN :
          /\ v_written' = 1..k
          /\ v_dir' = [v_dir EXCEPT !.files = v_dir.files \cup (1..k)]
          /\ IF timed_out
             THEN /\ v_result' = [kind |-> "raise", error |-> "Timeout"]
                  /\ vpc' = "done"
             ELSE /\ v_result' = v_result
                  /\ vpc' = "collect"
    /\ UNCHANGED <<notVideo, v_num_frames, v_info, v_cmd>>

\* collect the expected files that exist; return output_paths
VideoCollect ==
    /\ vpc = "collect"
    /\ v_result' = [kind |-> "paths",
                    paths |-> CollectOutputFiles(v_num_frames, v_dir.files)]
    /\ vpc' = "done"
    /\ UNCHANGED <<notVideo, v_num_frames, v_info, v_cmd, v_dir, v_written,
                   v_invocations>>

VideoNext ==
    \/ VideoMissingTool
    \/ VideoMakedirs
    \/ VideoProbe
    \/ VideoCommand
    \/ VideoRun
    \/ VideoCollect

\* ----------------------------------------------------- claims on video
\* C7: video extraction chooses its decoder command from the probed
\* duration alone: with duration <= 0 it asks for the first n frames in
\* decode order with a frame-number select filter and no fps filter;
\* otherwise it applies an fps filter with target_fps = max(0.1, n / duration);
\* in both cases the decoder output is capped at n frames.
C7_DecoderCommand ==
    vpc \in {"run", "collect"} \/ (vpc = "done" /\ v_invocations > 0) =>
        LET n == v_num_frames
            dur == v_info.duration
        IN /\ v_cmd.frames_cap = n
           /\ Cardinality(v_written) <= n
           /\ dur <= 0 =>
                 /\ v_cmd.filter = "select"
                 /\ v_cmd.select_n = n
                 /\ v_cmd.fps = Fps0
           /\ dur > 0 =>
                 /\ v_cmd.filter = "fps"
                 /\ v_cmd.select_n = 0
                 \* fps >= 0.1, fps >= n / duration, and fps is one of the two
                 /\ v_cmd.fps[1] * 10 >= v_cmd.fps[2]
                 /\ v_cmd.fps[1] * dur >= v_cmd.fps[2] * n * 1000
                 /\ \/ v_cmd.fps[1] * 10 = v_cmd.fps[2]
                    \/ v_cmd.fps[1] * dur = v_cmd.fps[2] * n * 1000

C7_Witness ==
    /\ vpc = "done"
    /\ v_result.kind = "paths"
    /\ v_info.duration = 20000
    /\ v_num_frames = 1
    /\ v_cmd.filter = "fps"
    /\ v_cmd.fps = <<1, 10>>

\* extract_frames_video returned its list
VideoReturned == vpc = "done" /\ v_result.kind = "paths"

\* the list holds exactly the ordinals of 1..num_frames present in
\* output_dir, in rising order, after one decoder run
ScanIsExact ==
    /\ v_invocations = 1
    /\ StrictlyIncreasing(v_result.paths)
    /\ {v_result.paths[k] : k \in 1..Len(v_result.paths)}
          = {i \in 1..v_num_frames : i \in v_dir.files}

\* C22: after the single decoder run, video extraction returns exactly the
\* files {prefix}_{i:03d}.png, i in 1..requested_n, that exist in the
\* output directory, in rising ordinal order; a missing ordinal is skipped
\* without error and without a second decoder run; and every returned path
\* is a file this call's decoder run wrote.
C22_ScanReturnsOwnFiles ==
    VideoReturned =>
        /\ ScanIsExact
        /\ \A k \in 1..Len(v_result.paths) : v_result.paths[k] \in v_written

\* the part of C22 that does not turn on who wrote the files
C22_ScanReturnsExisting == VideoReturned => ScanIsExact

\* -------------------------------------------- main and run_extraction
\* The files and directories a run can touch.  download_dir, download_file,
\* clip_tmp and temp_dir are the run's own temporaries; user_file is the
\* user's source (a local path or a clipboard file reference);
\* sys_tmp_other stands for everything else in the system temp directory.
FsNames == {"download_dir", "download_file", "clip_tmp", "temp_dir", "user_file",
            "sys_tmp_other"}

Return(code) == [kind |-> "return", code |-> code, error |-> "none"]
Raise(error) == [kind |-> "raise", code |-> 0, error |-> error]
NoOutcome == [kind |-> "none", code |-> 0, error |-> "none"]

\* main: return run_extraction(args); except KeyboardInterrupt: return 130;
\* except Exception: return 1.  Falling off run_extraction returns 0.
ExitCodeOf(outcome) ==
    IF outcome.kind = "raise"
    THEN (IF outcome.error = "KeyboardInterrupt" THEN 130 ELSE 1)
    ELSE outcome.code

\* the MediaInfo values the command's probe can give
RunStreams ==
    {s \in VideoStreams :
        /\ s.width = Some(640)
        /\ s.codec_name \in {Some("h264"), Some("gif")}
        /\ s.r_frame_rate = Absent
        /\ s.duration \in {Some(0), Some(1000)}
        /\ s.nb_frames \in {Absent, Some(24)}}

RunInfos ==
    {PilImageInfo}
    \cup {PilGifInfo(fc, fc * DefaultFrameMs) : fc \in {1, MaxGifFrames}}
    \cup {FfprobeInfo(s, Absent) : s \in RunStreams}

\* num_frames = min(args.frames, info.frame_count) if info.frame_count > 0
\*              else args.frames
NumFramesAlwaysMin(frames, frame_count) == Min(frames, frame_count)
NumFrames(frames, frame_count) ==
    IF frame_count > 0 THEN Min(frames, frame_count) ELSE frames

\* if info.duration > 0: interval = info.duration / num_frames; the division
\* is made only then, and raises ZeroDivisionError for num_frames = 0
IntervalDefined(dur_ms, n) == dur_ms > 0 => n # 0

\* where control goes when the try body ends with `outcome`: the finally
\* block runs for a return, an exception and a KeyboardInterrupt alike
AfterTryBodyExceptException(outcome) ==
    IF outcome.kind = "raise" /\ outcome.error = "KeyboardInterrupt"
    THEN "exit"
    ELSE "cleanup_temp"
AfterTryBody(outcome) == "cleanup_temp"

\* if is_temp and source_path and os.path.exists(source_path)
SourceCleanupWanted(temp, path, files) ==
    temp /\ path # "none" /\ files[path]

\* parent = os.path.dirname(source_path)
ParentOf(path) ==
    IF path = "download_file" THEN "download_dir"
    ELSE IF path = "clip_tmp" THEN "system_tmp"
    ELSE "user_dir"

\* parent.startswith(tempfile.gettempdir())
InSystemTmp(dir) == dir \in {"download_dir", "system_tmp"}

\* shutil.rmtree(parent, ignore_errors=True) at its most effective: the
\* directory and all it holds are gone
RmtreeParent(files, parent) ==
    IF parent = "download_dir"
    THEN [files EXCEPT !["download_dir"] = FALSE, !["download_file"] = FALSE]
    ELSE IF parent = "system_tmp"
    THEN [files EXCEPT !["download_dir"] = FALSE, !["download_file"] = FALSE,
                       !["clip_tmp"] = FALSE, !["temp_dir"] = FALSE,
                       !["sys_tmp_other"] = FALSE]
    ELSE files

RunRest ==
    /\ source_path = "none"
    /\ source_type = "none"
    /\ is_temp = FALSE
    /\ created = {}
    /\ info = Pending
    /\ num_frames = 0
    /\ raw_frames = 0
    /\ final_frames = 0
    /\ pending = NoOutcome
    /\ primary = NoOutcome
    /\ cleanup_ran = {}
    /\ cleanup_failed = {}
    /\ exit_code = Absent

RunIdle ==
    /\ pc = "idle"
    /\ args = [source |-> "file", info |-> FALSE, frames |-> 1, clean |-> FALSE]
    /\ fs = [n \in FsNames |-> FALSE]
    /\ RunRest

RunInit ==
    /\ pc = "detect"
    /\ args \in [source : {"clipboard", "url", "file"}, info : BOOLEAN,
                 frames : 1..MaxRequest, clean : BOOLEAN]
    /\ \E user_file_there \in BOOLEAN :
          fs = [n \in FsNames |->
                  IF n = "sys_tmp_other" THEN TRUE
                  ELSE IF n = "user_file" THEN user_file_there
                  ELSE FALSE]
    /\ RunRest

\* the command ends with `outcome`, no (further) cleanup running
Finish(outcome) ==
    /\ pc' = "done"
    /\ pending' = outcome
    /\ exit_code' = Some(ExitCodeOf(outcome))

\* --- detect_source
\* detect_source's third result: content_type != CLIPBOARD_FILE for the
\* clipboard, True for a download, False for a local path
IsTempSourceAlways(origin) == TRUE
IsTempSource(origin) == origin \in {"clipboard_data", "download"}

\* clipboard: empty, or a file reference that cannot be resolved
DetectClipboardEmpty ==
    /\ pc = "detect"
    /\ args.source = "clipboard"
    /\ source_type' = "empty"
    /\ primary' = Return(1)
    /\ Finish(Return(1))
    /\ UNCHANGED <<notRun, args, source_path, is_temp, fs, created, info, num_frames,
                   raw_frames, final_frames, cleanup_ran, cleanup_failed>>

\* clipboard: a file reference to a file that exists (the platform's
\* get_file_path tests os.path.exists); the user's file, not temp
DetectClipboardFile ==
    /\ pc = "detect"
    /\ args.source = "clipboard"
    /\ fs["user_file"]
    /\ source_path' = "user_file"
    /\ source_type' = "clipboard"
    /\ is_temp' = IsTempSource("clipboard_file")
    /\ pc' = "probe"
    /\ UNCHANGED <<notRun, args, fs, created, info, num_frames, raw_frames,
                   final_frames, pending, primary, cleanup_ran, cleanup_failed,
                   exit_code>>

\* clipboard image or GIF data: save_clipboard_to_file makes a temp file
\* with tempfile.mkstemp, in the system temp directory itself
ClipboardMkstemp ==
    /\ pc = "detect"
    /\ args.source = "clipboard"
    /\ fs' = [fs EXCEPT !["clip_tmp"] = TRUE]
    /\ created' = created \cup {"clip_tmp"}
    /\ pc' = "clip_save"
    /\ UNCHANGED <<notRun, args, source_path, source_type, is_temp, info, num_frames,
                   raw_frames, final_frames, pending, primary, cleanup_ran,
                   cleanup_failed, exit_code>>

\* the platform's save: it works, or fails (the file is removed and the
\* clipboard counts as empty), or the user interrupts it
ClipboardSave ==
    /\ pc = "clip_save"
    /\ \/ /\ source_path' = "clip_tmp"
          /\ source_type' = "clipboard"
          /\ is_temp' = IsTempSource("clipboard_data")
          /\ pc' = "probe"
          /\ UNCHANGED <<fs, pending, primary, exit_code>>
       \/ /\ fs' = [fs EXCEPT !["clip_tmp"] = FALSE]
          /\ source_type' = "empty"
          /\ primary' = Return(1)
          /\ Finish(Return(1))
          /\ UNCHANGED <<source_path, is_temp>>
       \/ /\ primary' = Raise("KeyboardInterrupt")
          /\ Finish(Raise("KeyboardInterrupt"))
          /\ UNCHANGED <<source_path, source_type, is_temp, fs>>
    /\ UNCHANGED <<notRun, args, created, info, num_frames, raw_frames, final_frames,
                   cleanup_ran, cleanup_failed>>

\* download_url: output_dir = tempfile.mkdtemp(prefix="v2i_download_")
DownloadMkdtemp ==
    /\ pc = "detect"
    /\ args.source = "url"
    /\ fs' = [fs EXCEPT !["download_dir"] = TRUE]
    /\ created' = created \cup {"download_dir"}
    /\ pc' = "download"
    /\ UNCHANGED <<notRun, args, source_path, source_type, is_temp, info, num_frames,
                   raw_frames, final_frames, pending, primary, cleanup_ran,
                   cleanup_failed, exit_code>>

\* urllib.request.urlretrieve(url, output_path): the file arrives, or the
\* transfer fails (RuntimeError, a partial file may stay), or the user
\* interrupts it
DownloadRetrieve ==
    /\ pc = "download"
    /\ \/ /\ fs' = [fs EXCEPT !["download_file"] = TRUE]
          /\ created' = created \cup {"download_file"}
          /\ source_path' = "download_file"
          /\ source_type' = "url"
          /\ is_temp' = IsTempSource("download")
          /\ pc' = "probe"
          /\ UNCHANGED <<pending, primary, exit_code>>
       \/ \E partial \in BOOLEAN, error \in {"TransferFailed", "KeyboardInterrupt"} :
             /\ fs' = [fs EXCEPT !["download_file"] = partial]
             /\ created' = IF partial THEN created \cup {"download_file"} ELSE created
             /\ primary' = Raise(error)
             /\ Finish(Raise(error))
             /\ UNCHANGED <<source_path, source_type, is_temp>>
    /\ UNCHANGED <<notRun, args, info, num_frames, raw_frames, final_frames,
                   cleanup_ran, cleanup_failed>>

\* a local path: not found, or the user's file, not temp
DetectFile ==
    /\ pc = "detect"
    /\ args.source = "file"
    /\ IF fs["user_file"]
       THEN /\ source_path' = "user_file"
            /\ source_type' = "file"
            /\ is_temp' = IsTempSource("local_path")
            /\ pc' = "probe"
            /\ UNCHANGED <<pending, primary, exit_code>>
       ELSE /\ source_type' = "not_found"
            /\ primary' = Return(1)
            /\ Finish(Return(1))
            /\ UNCHANGED <<source_path, is_temp>>
    /\ UNCHANGED <<notRun, args, fs, created, info, num_frames, raw_frames,
                   final_frames, cleanup_ran, cleanup_failed>>

\* --- run_extraction before the try
\* info = get_media_info(source_path); if info is None: return 1
RunProbe ==
    /\ pc = "probe"
    /\ \/ /\ ~fs[source_path]
          /\ info' = NoneResult
          /\ primary' = Return(1)
          /\ Finish(Return(1))
       \/ /\ fs[source_path]
          /\ \/ /\ info' \in RunInfos
                /\ pc' = "info_mode"
                /\ UNCHANGED <<pending, primary, exit_code>>
             \/ /\ info' = NoneResult
                /\ primary' = Return(1)
                /\ Finish(Return(1))
             \/ /\ info' = info
                /\ primary' = Raise("KeyboardInterrupt")
                /\ Finish(Raise("KeyboardInterrupt"))
    /\ UNCHANGED <<notRun, args, source_path, source_type, is_temp, fs, created,
                   num_frames, raw_frames, final_frames, cleanup_ran, cleanup_failed>>

\* if args.info: print ...; return 0
RunInfoMode ==
    /\ pc = "info_mode"
    /\ args.info
    /\ primary' = Return(0)
    /\ Finish(Return(0))
    /\ UNCHANGED <<notRun, args, source_path, source_type, is_temp, fs, created, info,
                   num_frames, raw_frames, final_frames, cleanup_ran, cleanup_failed>>

\* num_frames; interval = info.duration / num_frames when duration > 0
RunNumFrames ==
    /\ pc = "info_mode"
    /\ ~args.info
    /\ num_frames' = NumFrames(args.frames, info.frame_count)
    /\ IF IntervalDefined(info.duration, NumFrames(args.frames, info.frame_count))
       THEN /\ pc' = "clean"
            /\ UNCHANGED <<pending, primary, exit_code>>
       ELSE /\ primary' = Raise("ZeroDivisionError")
            /\ Finish(Raise("ZeroDivisionError"))
    /\ UNCHANGED <<notRun, args, source_path, source_type, is_temp, fs, created, info,
                   raw_frames, final_frames, cleanup_ran, cleanup_failed>>

\* if args.clean and os.path.exists(output_dir): shutil.rmtree(output_dir),
\* which can raise
RunClean ==
    /\ pc = "clean"
    /\ \/ /\ pc' = "mkdtemp"
          /\ UNCHANGED <<pending, primary, exit_code>>
       \/ /\ args.clean
          /\ primary' = Raise("CleanFailed")
          /\ Finish(Raise("CleanFailed"))
    /\ UNCHANGED <<notRun, args, source_path, source_type, is_temp, fs, created, info,
                   num_frames, raw_frames, final_frames, cleanup_ran, cleanup_failed>>

\* temp_dir = tempfile.mkdtemp(prefix="v2i_temp_")
RunMkdtemp ==
    /\ pc = "mkdtemp"
    /\ fs' = [fs EXCEPT !["temp_dir"] = TRUE]
    /\ created' = created \cup {"temp_dir"}
    /\ pc' = "extract"
    /\ UNCHANGED <<notRun, args, source_path, source_type, is_temp, info, num_frames,
                   raw_frames, final_frames, pending, primary, cleanup_ran,
                   cleanup_failed, exit_code>>

\* --- the try body
\* how many raw frames extract_frames can return for this info
RawFrameCounts(media, n) ==
    IF media.format = "image" /\ media.frame_count <= 1 THEN {1}
    ELSE IF media.format = "gif" THEN {Len(FrameIndices(media.frame_count, n))}
    ELSE 0..n

\* the errors extract_frames can raise for this info: the decoder missing
\* or timing out (video only), PIL unable to read what only ffprobe could
\* read, an I/O error on a save, a user interrupt
ExtractErrors(media) ==
    {"ExtractionError", "KeyboardInterrupt"}
    \cup (IF media.format = "video" THEN {"MissingTool", "Timeout"} ELSE {})

\* a GIF that only ffprobe could read: Image.open raises in extract_frames_gif
PilCannotRead(media) == media.format = "gif" /\ media.codec # Absent

\* raw_frames, _ = extract_frames(source_path, temp_dir, num_frames, "raw")
RunExtract ==
    /\ pc = "extract"
    /\ \/ /\ ~PilCannotRead(info)
          /\ raw_frames' \in RawFrameCounts(info, num_frames)
          /\ pc' = "check_frames"
          /\ UNCHANGED <<pending, primary>>
       \/ \E error \in ExtractErrors(info) :
             /\ raw_frames' = raw_frames
             /\ primary' = Raise(error)
             /\ pending' = Raise(error)
             /\ pc' = AfterTryBody(Raise(error))
    /\ UNCHANGED <<notRun, args, source_path, source_type, is_temp, fs, created, info,
                   num_frames, final_frames, cleanup_ran, cleanup_failed, exit_code>>

\* if not raw_frames: print_error(...); return 1
RunCheckFrames ==
    /\ pc = "check_frames"
    /\ IF raw_frames = 0
       THEN /\ primary' = Return(1)
            /\ pending' = Return(1)
            /\ pc' = AfterTryBody(Return(1))
       ELSE /\ pc' = "optimize"
            /\ UNCHANGED <<pending, primary>>
    /\ UNCHANGED <<notRun, args, source_path, source_type, is_temp, fs, created, info,
                   num_frames, raw_frames, final_frames, cleanup_ran, cleanup_failed,
                   exit_code>>

\* final_frames = optimize_frames(raw_frames, output_dir, ...), the report
\* and open_folder; the body then falls through to `return 0`.  The
\* optimizer can raise after writing some of the frames.
RunOptimize ==
    /\ pc = "optimize"
    /\ \/ /\ final_frames' = raw_frames
          /\ primary' = Return(0)
          /\ pending' = NoOutcome
          /\ pc' = AfterTryBody(NoOutcome)
       \/ \E written \in 0..(raw_frames - 1), error \in {"EncodeFailed", "KeyboardInterrupt"} :
             /\ final_frames' = written
             /\ primary' = Raise(error)
             /\ pending' = Raise(error)
             /\ pc' = AfterTryBody(Raise(error))
    /\ UNCHANGED <<notRun, args, source_path, source_type, is_temp, fs, created, info,
                   num_frames, raw_frames, cleanup_ran, cleanup_failed, exit_code>>

\* --- the finally block
\* if os.path.exists(temp_dir): shutil.rmtree(temp_dir).  An error of rmtree
\* is not caught: it leaves the finally block at once, in place of whatever
\* was pending.
RunCleanupTempDir ==
    /\ pc = "cleanup_temp"
    /\ IF fs["temp_dir"]
       THEN /\ cleanup_ran' = cleanup_ran \cup {"temp_dir"}
            /\ \/ /\ fs' = [fs EXCEPT !["temp_dir"] = FALSE]
                  /\ pc' = "cleanup_source"
                  /\ UNCHANGED <<pending, cleanup_failed>>
               \/ /\ cleanup_failed' = cleanup_failed \cup {"temp_dir"}
                  /\ pending' = Raise("CleanupFailed")
                  /\ pc' = "exit"
                  /\ fs' = fs
       ELSE /\ pc' = "cleanup_source"
            /\ UNCHANGED <<fs, pending, cleanup_ran, cleanup_failed>>
    /\ UNCHANGED <<notRun, args, source_path, source_type, is_temp, created, info,
                   num_frames, raw_frames, final_frames, primary, exit_code>>

\* if is_temp and source_path and os.path.exists(source_path): nothing to do
RunCleanupSourceSkip ==
    /\ pc = "cleanup_source"
    /\ ~SourceCleanupWanted(is_temp, source_path, fs)
    /\ pc' = "exit"
    /\ UNCHANGED <<notRun, args, source_path, source_type, is_temp, fs, created, info,
                   num_frames, raw_frames, final_frames, pending, primary, cleanup_ran,
                   cleanup_failed, exit_code>>

\* try: os.remove(source_path); parent = dirname(source_path);
\*      if parent.startswith(gettempdir()): rmtree(parent, ignore_errors=True)
\* except Exception: pass
RunCleanupSource ==
    /\ pc = "cleanup_source"
    /\ SourceCleanupWanted(is_temp, source_path, fs)
    /\ \/ \* os.remove raises: swallowed, the parent is not tried
          /\ cleanup_ran' = cleanup_ran \cup {"source_file"}
          /\ cleanup_failed' = cleanup_failed \cup {"source_file"}
          /\ fs' = fs
       \/ \* os.remove works; rmtree of the parent removes it or fails silently
          /\ InSystemTmp(ParentOf(source_path))
          /\ cleanup_ran' = cleanup_ran \cup {"source_file", "source_parent"}
          /\ \/ /\ fs' = RmtreeParent([fs EXCEPT ![source_path] = FALSE],
                                      ParentOf(source_path))
                /\ cleanup_failed' = cleanup_failed
             \/ /\ fs' = [fs EXCEPT ![source_path] = FALSE]
                /\ cleanup_failed' = cleanup_failed \cup {"source_parent"}
       \/ \* os.remove works; the parent is not under the temp directory
          /\ ~InSystemTmp(ParentOf(source_path))
          /\ cleanup_ran' = cleanup_ran \cup {"source_file"}
          /\ cleanup_failed' = cleanup_failed
          /\ fs' = [fs EXCEPT ![source_path] = FALSE]
    /\ pc' = "exit"
    /\ UNCHANGED <<notRun, args, source_path, source_type, is_temp, created, info,
                   num_frames, raw_frames, final_frames, pending, primary, exit_code>>

\* the pending return or exception leaves run_extraction (`return 0` when
\* nothing is pending); main turns it into the exit code
RunExit ==
    /\ pc = "exit"
    /\ Finish(IF pending = NoOutcome THEN Return(0) ELSE pending)
    /\ UNCHANGED <<notRun, args, source_path, source_type, is_temp, fs, created, info,
                   num_frames, raw_frames, final_frames, primary, cleanup_ran,
                   cleanup_failed>>

RunNext ==
    \/ DetectClipboardEmpty
    \/ DetectClipboardFile
    \/ ClipboardMkstemp
    \/ ClipboardSave
    \/ DownloadMkdtemp
    \/ DownloadRetrieve
    \/ DetectFile
    \/ RunProbe
    \/ RunInfoMode
    \/ RunNumFrames
    \/ RunClean
    \/ RunMkdtemp
    \/ RunExtract
    \/ RunCheckFrames
    \/ RunOptimize
    \/ RunCleanupTempDir
    \/ RunCleanupSourceSkip
    \/ RunCleanupSource
    \/ RunExit

\* ------------------------------------------------ claims on the command
\* C1: every temporary source resource created for a run (the download
\* directory and file of a URL source, the temp file of clipboard image or
\* GIF content) is removed on every exit path of the command once it has
\* been created.
C1_TempSourceRemoved ==
    pc = "done" =>
        /\ ~fs["download_dir"]
        /\ ~fs["download_file"]
        /\ ~fs["clip_tmp"]

C3_CleanupFailureSwallowed ==
    (pc = "done" /\ cleanup_failed # {}) =>
        /\ pending = primary
        /\ ("temp_dir" \in cleanup_failed /\ is_temp) => "source_file" \in cleanup_ran
        /\ "source_file" \in cleanup_failed => "source_parent" \in cleanup_ran

\* extract_frames returned and optimize_frames returned after it
OptimizationCompleted == raw_frames >= 1 /\ primary = Return(0)

\* extract_frames returned an empty list: the `return 1` of the try body
ExtractionReturnedNothing == "temp_dir" \in created /\ primary = Return(1)

\* C11: the command ends with exit code 0 and final frames written if and
\* only if extraction returned at least one artifact and optimization
\* completed; it then has as many final frames as extraction returned, also
\* when these are fewer than requested; when extraction returns no artifact
\* the exit code is not 0 and no final frame is written.
C11_SuccessIffFramesOptimized ==
    pc = "done" =>
        /\ (exit_code = Some(0) /\ final_frames >= 1) <=> OptimizationCompleted
        /\ OptimizationCompleted => final_frames = raw_frames
        /\ ExtractionReturnedNothing => (exit_code # Some(0) /\ final_frames = 0)

\* the same with the runs whose temp-directory removal failed set aside
C11_ApartFromCleanupFailure ==
    (pc = "done" /\ cleanup_failed = {}) =>
        /\ (exit_code = Some(0) /\ final_frames >= 1) <=> OptimizationCompleted
        /\ OptimizationCompleted => final_frames = raw_frames
        /\ ExtractionReturnedNothing => (exit_code # Some(0) /\ final_frames = 0)

\* run_extraction has computed the frame budget
BudgetComputed ==
    \/ pc \in {"clean", "mkdtemp", "extract", "check_frames", "optimize",
               "cleanup_temp", "cleanup_source", "exit"}
    \/ pc = "done" /\ "temp_dir" \in created

\* C19: the caller hands extraction min(requested, frame_count) when the
\* probed frame_count is > 0 and the requested number unchanged when it is
\* 0; video extraction uses the number it is handed as it is (the decoder's
\* cap is that number); so the budget is always >= 1, and neither the
\* caller's interval division (duration / budget) nor the extractor's
\* target-fps division (budget / duration) divides by zero.
C19_FrameBudget ==
    /\ primary # Raise("ZeroDivisionError")
    /\ BudgetComputed =>
          /\ info.frame_count > 0 =>
                /\ num_frames <= args.frames
                /\ num_frames <= info.frame_count
                /\ num_frames = args.frames \/ num_frames = info.frame_count
          /\ info.frame_count <= 0 => num_frames = args.frames
          /\ num_frames >= 1
          /\ info.format = "video" =>
                LET cmd == DecoderCommand(num_frames, info.duration) IN
                /\ cmd.frames_cap = num_frames
                /\ cmd.filter = "fps" => (info.duration > 0 /\ cmd.fps[2] > 0)
                /\ cmd.filter = "select" => cmd.select_n = num_frames

C19_Witness ==
    /\ pc = "done"
    /\ args.frames = MaxRequest
    /\ info.kind = "MediaInfo"
    /\ info.frame_count = 1
    /\ num_frames = 1
    /\ raw_frames = 1
    /\ exit_code = Some(0)

C23_CleanupOnlyOwnResources ==
    /\ fs["sys_tmp_other"]
    /\ "source_parent" \in cleanup_ran => ParentOf(source_path) \in created

\* ------------------------------- the bounded external-process calls
\* The three places that call subprocess.run with a timeout: _run_command
\* of clipboard.py (every clipboard tool), _run_ffprobe and the decoder run
\* of extract_frames_video.  Time is in seconds.
CallSites == {"clipboard", "ffprobe", "ffmpeg"}

\* seconds a process can need: under every bound, and just over each
CallSeconds == {1, 11, 31, 121}

\* timeout=10 (_run_command), timeout=30 (_run_ffprobe), timeout=120 (decoder)
TimeoutSecondsAllTen(site) == 10
TimeoutSeconds(site) ==
    IF site = "clipboard" THEN 10
    ELSE IF site = "ffprobe" THEN 30
    ELSE 120

\* subprocess.run(cmd, timeout=t): no executable, stopped at the timeout,
\* or run to its end
SubprocessRun(tool, needs, t) ==
    IF ~tool THEN "FileNotFoundError"
    ELSE IF needs > t THEN "TimeoutExpired"
    ELSE "completed"

CallReturn(kind, rc) == [kind |-> kind, rc |-> rc, error |-> "none"]
CallRaise(error) == [kind |-> "raise", rc |-> 0, error |-> error]
CallPending == [kind |-> "pending", rc |-> 0, error |-> "none"]

\* shutil.which is asked first for ffprobe and ffmpeg, never in _run_command
ToolChecked(site) == site \in {"ffprobe", "ffmpeg"}

\* check_ffprobe() false: return None; check_ffmpeg() false: RuntimeError
ToolMissingResult(site) ==
    IF site = "ffprobe" THEN CallReturn("None", 0) ELSE CallRaise("MissingTool")

\* _run_command: return result.returncode, ...; except (TimeoutExpired,
\* FileNotFoundError): return 1, b"", str(e)
RunCommandResult(ran, rc) ==
    IF ran = "completed" THEN CallReturn("returncode", rc)
    ELSE CallReturn("returncode", 1)

\* _run_ffprobe: the JSON when the return code is 0; None otherwise, also
\* after TimeoutExpired
RunFfprobeResult(ran, rc) ==
    IF ran = "completed" /\ rc = 0 THEN CallReturn("data", 0)
    ELSE CallReturn("None", 0)

\* extract_frames_video: except subprocess.TimeoutExpired: raise
\* RuntimeError("Frame extraction timed out"); the return code is not read
DecoderRunResult(ran, rc) ==
    IF ran = "TimeoutExpired" THEN CallRaise("Timeout")
    ELSE IF ran = "FileNotFoundError" THEN CallRaise("FileNotFoundError")
    ELSE CallReturn("paths", 0)

CallRest ==
    /\ c_runs = 0
    /\ c_ran = "none"
    /\ c_result = CallPending

CallIdle ==
    /\ cpc = "idle"
    /\ c_site = "clipboard"
    /\ c_tool = FALSE
    /\ c_needs = 1
    /\ c_rc = 0
    /\ CallRest

CallInit ==
    /\ cpc = "check"
    /\ c_site \in CallSites
    /\ c_tool \in BOOLEAN
    /\ c_needs \in CallSeconds
    /\ c_rc \in {0, 1}
    /\ CallRest

\* if not check_ffprobe(): return None / if not check_ffmpeg(): raise
CallToolMissing ==
    /\ cpc = "check"
    /\ ToolChecked(c_site)
    /\ ~c_tool
    /\ c_result' = ToolMissingResult(c_site)
    /\ cpc' = "done"
    /\ UNCHANGED <<notCall, c_site, c_tool, c_needs, c_rc, c_runs, c_ran>>

\* the tool is there, or nobody asks
CallToolOk ==
    /\ cpc = "check"
    /\ ToolChecked(c_site) => c_tool
    /\ cpc' = "run"
    /\ UNCHANGED <<notCall, c_site, c_tool, c_needs, c_rc, c_runs, c_ran, c_result>>

\* subprocess.run(cmd, capture_output=True, timeout=...)
CallRun ==
    /\ cpc = "run"
    /\ c_runs' = c_runs + 1
    /\ c_ran' = SubprocessRun(c_tool, c_needs, TimeoutSeconds(c_site))
    /\ cpc' = "handle"
    /\ UNCHANGED <<notCall, c_site, c_tool, c_needs, c_rc, c_result>>

\* the calling function's return or except clause; none of them loops back
CallHandle ==
    /\ cpc = "handle"
    /\ c_result' = IF c_site = "clipboard" THEN RunCommandResult(c_ran, c_rc)
                   ELSE IF c_site = "ffprobe" THEN RunFfprobeResult(c_ran, c_rc)
                   ELSE DecoderRunResult(c_ran, c_rc)
    /\ cpc' = "done"
    /\ UNCHANGED <<notCall, c_site, c_tool, c_needs, c_rc, c_runs, c_ran>>

CallNext ==
    \/ CallToolMissing
    \/ CallToolOk
    \/ CallRun
    \/ CallHandle

\* ------------------------------------------ claims on the bounded calls
\* the call was made and the process needed longer than the call's bound
ExceededItsTimeout ==
    /\ c_runs > 0
    /\ c_tool
    /\ \/ c_site = "clipboard" /\ c_needs > 10
       \/ c_site = "ffprobe" /\ c_needs > 30
       \/ c_site = "ffmpeg" /\ c_needs > 120

\* C12: whenever a bounded external-process call exceeds its timeout (10 s
\* for a clipboard tool, 30 s for the metadata probe, 120 s for the video
\* frame extraction), the calling stage fails with a Timeout error and the
\* call is not retried.
C12_TimeoutFailsStage ==
    (cpc = "done" /\ ExceededItsTimeout) =>
        /\ c_result = CallRaise("Timeout")
        /\ c_runs = 1

\* C12 as the code has it: the call is stopped exactly when the process
\* needs more than its bound and is never made a second time; only the
\* video frame extraction then raises a Timeout error, the metadata probe
\* gives None (no media info) and a clipboard tool call gives return code 1,
\* the results they give for any other failure of the tool.
C12_TimeoutHandling ==
    /\ c_runs <= 1
    /\ cpc \in {"handle", "done"} => (c_ran = "TimeoutExpired" <=> ExceededItsTimeout)
    /\ (cpc = "done" /\ ExceededItsTimeout) =>
          /\ c_site = "ffmpeg" => c_result = CallRaise("Timeout")
          /\ c_site = "ffprobe" => c_result = CallReturn("None", 0)
          /\ c_site = "clipboard" => c_result = CallReturn("returncode", 1)

C12_Witness ==
    /\ cpc = "done"
    /\ c_site = "ffprobe"
    /\ c_needs = 31
    /\ c_ran = "TimeoutExpired"
    /\ c_result = CallReturn("None", 0)
    /\ c_runs = 1

\* ------------------------------------------------------ extract_frames
\* extract_frames probes the source and takes one of three paths.  The
\* GIF and video paths are modelled step by step above; here each is one
\* step that keeps what the choice of path turns on: whether the decoder
\* is looked up and run, and what reaches output_dir.
ExtractPaths(n) == [kind |-> "paths", n |-> n, error |-> "none"]
ExtractRaise(error) == [kind |-> "raise", n |-> 0, error |-> error]
ExtractPending == [kind |-> "pending", n |-> 0, error |-> "none"]

\* if info.format == "image" and not info.is_animated / if info.format ==
\* "gif" / else: the video path
ExtractionPathGifAsVideo(media) ==
    IF media.format = "image" /\ media.frame_count <= 1 THEN "image" ELSE "video"
ExtractionPath(media) ==
    IF media.format = "image" /\ media.frame_count <= 1 THEN "image"
    ELSE IF media.format = "gif" THEN "gif"
    ELSE "video"

ExtractRest ==
    /\ e_lookups = 0
    /\ e_invocations = 0
    /\ e_dir_made = FALSE
    /\ e_files = 0
    /\ e_result = ExtractPending

ExtractIdle ==
    /\ epc = "idle"
    /\ e_info = NoneResult
    /\ e_num_frames = 1
    /\ e_ffmpeg = FALSE
    /\ e_disk_ok = FALSE
    /\ ExtractRest

ExtractInit ==
    /\ epc = "probe"
    /\ e_info \in RunInfos \cup {NoneResult}
    /\ e_num_frames \in 1..MaxRequest
    /\ e_ffmpeg \in BOOLEAN
    /\ e_disk_ok \in BOOLEAN
    /\ ExtractRest

\* info = get_media_info(source_path); if not info: raise ValueError
ExtractNotReadable ==
    /\ epc = "probe"
    /\ e_info = NoneResult
    /\ e_result' = ExtractRaise("NotReadable")
    /\ epc' = "done"
    /\ UNCHANGED <<notExtract, e_info, e_num_frames, e_ffmpeg, e_disk_ok, e_lookups,
                   e_invocations, e_dir_made, e_files>>

\* the three-way choice
ExtractDispatch ==
    /\ epc = "probe"
    /\ e_info # NoneResult
    /\ epc' = ExtractionPath(e_info)
    /\ UNCHANGED <<notExtract, e_info, e_num_frames, e_ffmpeg, e_disk_ok, e_lookups,
                   e_invocations, e_dir_made, e_files, e_result>>

\* static image: os.makedirs; img.convert("RGB").save(frame_001.png)
ExtractImage ==
    /\ epc = "image"
    /\ e_dir_made' = TRUE
    /\ IF e_disk_ok
       THEN /\ e_files' = 1
            /\ e_result' = ExtractPaths(1)
       ELSE /\ e_files' = 0
            /\ e_result' = ExtractRaise("ExtractionError")
    /\ epc' = "done"
    /\ UNCHANGED <<notExtract, e_info, e_num_frames, e_ffmpeg, e_disk_ok, e_lookups,
                   e_invocations>>

\* extract_frames_gif: os.makedirs, Image.open, the plan, one save per
\* planned frame
ExtractGif ==
    /\ epc = "gif"
    /\ e_dir_made' = TRUE
    /\ IF e_disk_ok /\ ~PilCannotRead(e_info)
       THEN /\ e_files' = Len(FrameIndices(e_info.frame_count, e_num_frames))
            /\ e_result' = ExtractPaths(Len(FrameIndices(e_info.frame_count,
                                                         e_num_frames)))
       ELSE /\ e_files' = 0
            /\ e_result' = ExtractRaise("ExtractionError")
    /\ epc' = "done"
    /\ UNCHANGED <<notExtract, e_info, e_num_frames, e_ffmpeg, e_disk_ok, e_lookups,
                   e_invocations>>

\* extract_frames_video: if not check_ffmpeg(): raise RuntimeError(...)
ExtractVideoCheck ==
    /\ epc = "video"
    /\ e_lookups' = e_lookups + 1
    /\ IF e_ffmpeg
       THEN /\ epc' = "video_run"
            /\ e_result' = e_result
       ELSE /\ epc' = "done"
            /\ e_result' = ExtractRaise("MissingTool")
    /\ UNCHANGED <<notExtract, e_info, e_num_frames, e_ffmpeg, e_disk_ok,
                   e_invocations, e_dir_made, e_files>>

\* extract_frames_video after the check: os.makedirs, the decoder run
\* (stopped by the timeout or ended), the scan of output_dir
ExtractVideoRun ==
    /\ epc = "video_run"
    /\ e_dir_made' = TRUE
    /\ e_invocations' = e_invocations + 1
    /\ \E k \in 0..e_num_frames, timed_out \in BOOLEAN :
          /\ e_files' = IF e_disk_ok THEN k ELSE 0
          /\ e_result' = IF timed_out THEN ExtractRaise("Timeout")
                         ELSE ExtractPaths(IF e_disk_ok THEN k ELSE 0)
    /\ epc' = "done"
    /\ UNCHANGED <<notExtract, e_info, e_num_frames, e_ffmpeg, e_disk_ok, e_lookups>>

ExtractNext ==
    \/ ExtractNotReadable
    \/ ExtractDispatch
    \/ ExtractImage
    \/ ExtractGif
    \/ ExtractVideoCheck
    \/ ExtractVideoRun

\* ------------------------------------------- claims on extract_frames
\* the source is a still image or a GIF
ImageOrGif == e_info # NoneResult /\ e_info.format \in {"image", "gif"}

\* C13: MissingTool is raised only on the video path.  Image and GIF
\* extraction never look the decoder up nor run it, and they succeed with
\* at least one frame whether or not it is installed (given a source the
\* image library reads and a writable output directory).  Video extraction
\* with the decoder absent fails with MissingTool before the decoder is
\* run and before the output directory or any file in it is created.
C13_MissingToolOnlyVideo ==
    /\ e_result = ExtractRaise("MissingTool") =>
          /\ e_info.format = "video"
          /\ ~e_ffmpeg
          /\ e_invocations = 0
          /\ ~e_dir_made
          /\ e_files = 0
    /\ ImageOrGif =>
          /\ e_lookups = 0
          /\ e_invocations = 0
          /\ (epc = "done" /\ e_disk_ok /\ ~PilCannotRead(e_info)) =>
                (e_result.kind = "paths" /\ e_result.n >= 1)
    /\ (epc = "done" /\ e_info # NoneResult /\ e_info.format = "video" /\ ~e_ffmpeg) =>
          e_result = ExtractRaise("MissingTool")

C13_Witness ==
    /\ epc = "done"
    /\ e_info # NoneResult
    /\ e_info.format = "gif"
    /\ ~e_ffmpeg
    /\ e_result = ExtractPaths(e_num_frames)
    /\ e_num_frames > 1

\* ------------------------------------- optimize_frames and resize_image
\* widths and heights of raw frames, and the max_size values tried (the
\* command accepts 16..16384)
OptDims == {1, 15, 16, 17, 35, 49, 100, 3000}
OptMaxSizes == {16, 32, 1024}
OptFormats == {"jpg", "jpeg", "png", "webp"}

\* the ordinals of S in rising order
SortedSeq(S) ==
    CHOOSE q \in [1..Cardinality(S) -> S] :
        \A i, j \in 1..Cardinality(S) : i < j => q[i] < q[j]

\* the lists of raw frames extraction can hand over: ordinals rise, gaps
\* are possible (the video scan skips ordinals that are not there)
RawFrameLists == {SortedSeq(S) : S \in SUBSET (1..MaxRawOrdinal)}

\* if width <= max_size and height <= max_size: return image
FitsNever(size, max_size) == FALSE
FitsWithin(size, max_size) == size[1] <= max_size /\ size[2] <= max_size

\* if width > height: scale by the width, else by the height
WiderThanTall(size) == size[1] > size[2]

\* The triples <<a, m, b>> of this model's sizes for which the IEEE double
\* product a * (m / b) falls below the exact integer a * m / b, so that
\* int() gives one less: 49 * (16 / 49) = 15.999999999999998.
DoubleShortfall == {<<49, 16, 49>>, <<49, 32, 49>>}

\* int(a * (m / b)) as Python computes it: the double product truncated
RoundOfScaled(a, m, b) == (2 * a * m + b) \div (2 * b)
IntOfScaled(a, m, b) ==
    IF <<a, m, b>> \in DoubleShortfall THEN (a * m) \div b - 1 ELSE (a * m) \div b

\* new_width, new_height of the two branches
ScaledSize(size, max_size) ==
    IF WiderThanTall(size)
    THEN <<max_size, IntOfScaled(size[2], max_size, size[1])>>
    ELSE <<IntOfScaled(size[1], max_size, size[2]), max_size>>

\* resize_image: the size of the image it returns or asks PIL for
ResizeTargetHalved(size, max_size) ==
    IF FitsWithin(size, max_size) THEN size
    ELSE <<(size[1] + 1) \div 2, (size[2] + 1) \div 2>>
ResizeTarget(size, max_size) ==
    IF FitsWithin(size, max_size) THEN size ELSE ScaledSize(size, max_size)

\* ext = "jpg" if output_format == "jpeg" else output_format
ExtOf(output_format) == IF output_format = "jpeg" THEN "jpg" ELSE output_format

\* f"{prefix}_{i:03d}.{ext}": the name carries the loop index, not the
\* raw frame's ordinal
OutputOrdinalOfInput(i, raw) == raw
OutputOrdinal(i, raw) == i

OptPaths == [kind |-> "paths", error |-> "none"]
OptRaise(error) == [kind |-> "raise", error |-> error]
OptPending == [kind |-> "pending", error |-> "none"]

OptRest ==
    /\ o_i = 0
    /\ o_target = Absent
    /\ o_saved = <<>>
    /\ o_output_paths = <<>>
    /\ o_result = OptPending

OptIdle ==
    /\ opc = "idle"
    /\ o_frames = <<>>
    /\ o_size = <<1, 1>>
    /\ o_max_size = 16
    /\ o_format = "jpg"
    /\ OptRest

OptInit ==
    /\ opc = "start"
    /\ o_frames \in RawFrameLists
    /\ o_size \in OptDims \X OptDims
    /\ o_max_size \in OptMaxSizes
    /\ o_format \in OptFormats
    /\ OptRest

\* os.makedirs(output_dir, exist_ok=True); output_paths = []
OptMakedirs ==
    /\ opc = "start"
    /\ o_i' = 1
    /\ opc' = "resize"
    /\ UNCHANGED <<notOpt, o_frames, o_size, o_max_size, o_format, o_target, o_saved,
                   o_output_paths, o_result>>

\* optimize_image up to img = resize_image(img, max_size).  Image.open and
\* the conversion can raise; image.resize raises for a size with a zero in it.
OptResize ==
    /\ opc = "resize"
    /\ o_i <= Len(o_frames)
    /\ \/ /\ o_target' = Some(ResizeTarget(o_size, o_max_size))
          /\ IF ResizeTarget(o_size, o_max_size)[1] >= 1
                /\ ResizeTarget(o_size, o_max_size)[2] >= 1
             THEN opc' = "save" /\ o_result' = o_result
             ELSE opc' = "done" /\ o_result' = OptRaise("ResizeFailed")
       \/ /\ o_target' = Absent
          /\ opc' = "done"
          /\ o_result' = OptRaise("EncodeFailed")
    /\ UNCHANGED <<notOpt, o_frames, o_size, o_max_size, o_format, o_i, o_saved,
                   o_output_paths>>

\* img.save(output_path, ...); output_paths.append(output_path); next i
OptSave ==
    /\ opc = "save"
    /\ \/ /\ o_saved' = Append(o_saved,
                               [ordinal |-> OutputOrdinal(o_i, o_frames[o_i]),
                                ext |-> ExtOf(o_format),
                                from |-> o_frames[o_i],
                                size |-> o_target[1]])
          /\ o_output_paths' = Append(o_output_paths,
                                      [ordinal |-> OutputOrdinal(o_i, o_frames[o_i]),
                                       ext |-> ExtOf(o_format)])
          /\ o_i' = o_i + 1
          /\ opc' = "resize"
          /\ o_result' = o_result
       \/ /\ opc' = "done"
          /\ o_result' = OptRaise("EncodeFailed")
          /\ UNCHANGED <<o_saved, o_output_paths, o_i>>
    /\ UNCHANGED <<notOpt, o_frames, o_size, o_max_size, o_format, o_target>>

\* the loop is over: return output_paths
OptReturn ==
    /\ opc = "resize"
    /\ o_i > Len(o_frames)
    /\ o_result' = OptPaths
    /\ opc' = "done"
    /\ UNCHANGED <<notOpt, o_frames, o_size, o_max_size, o_format, o_i, o_target,
                   o_saved, o_output_paths>>

OptNext ==
    \/ OptMakedirs
    \/ OptResize
    \/ OptSave
    \/ OptReturn

\* ------------------------------------------ claims on optimize_frames
\* C14: optimize_frames over N input frames returns exactly N outputs; the
\* i-th is named {prefix}_{i:03d}.{ext}, lies in the one output directory
\* and is made from the i-th input, so the final ordinals are 1..N without
\* a gap even when the raw ordinals have gaps.
C14_OutputsRenumbered ==
    (opc = "done" /\ o_result = OptPaths) =>
        /\ Len(o_output_paths) = Len(o_frames)
        /\ Len(o_saved) = Len(o_frames)
        /\ \A i \in 1..Len(o_frames) :
              /\ o_output_paths[i] = [ordinal |-> i, ext |-> ExtOf(o_format)]
              /\ o_saved[i].ordinal = i
              /\ o_saved[i].ext = o_output_paths[i].ext
              /\ o_saved[i].from = o_frames[i]

C14_Witness ==
    /\ opc = "done"
    /\ o_result = OptPaths
    /\ o_frames = <<1, 3>>
    /\ o_format = "jpeg"
    /\ o_output_paths = <<[ordinal |-> 1, ext |-> "jpg"], [ordinal |-> 2, ext |-> "jpg"]>>

\* ---------------------------------------------- claims on resize_image
\* resize_image has answered for the current frame
Resized == o_target # Absent

\* the larger and the smaller side of the raw frame, and what resize_image
\* made of each (the height counts as the larger when both are equal)
LargerSide == IF o_size[1] > o_size[2] THEN o_size[1] ELSE o_size[2]
SmallerSide == IF o_size[1] > o_size[2] THEN o_size[2] ELSE o_size[1]
LargerSideResized == IF o_size[1] > o_size[2] THEN o_target[1][1] ELSE o_target[1][2]
SmallerSideResized == IF o_size[1] > o_size[2] THEN o_target[1][2] ELSE o_target[1][1]

\* C15: the size resize_image gives has width and height each at most the
\* original's (it never enlarges) and each at most max_size; it is the
\* original size when both sides are already within max_size.
C15_NeverUpscales ==
    Resized =>
        /\ o_target[1][1] <= o_size[1]
        /\ o_target[1][2] <= o_size[2]
        /\ o_target[1][1] <= o_max_size
        /\ o_target[1][2] <= o_max_size
        /\ (o_size[1] <= o_max_size /\ o_size[2] <= o_max_size) => o_target[1] = o_size
        /\ \A i \in 1..Len(o_saved) : o_saved[i].size = o_target[1]

C15_Witness ==
    /\ o_size = <<3000, 17>>
    /\ o_max_size = 1024
    /\ o_target = Some(<<1024, 5>>)
    /\ Len(o_saved) = 2

\* C16: resize_image is idempotent on sizes: applied with the same
\* max_size to the size it gave, it gives that size again.
C16_ResizeIdempotent ==
    Resized => ResizeTarget(o_target[1], o_max_size) = o_target[1]

C16_Witness ==
    /\ o_size = <<49, 49>>
    /\ o_max_size = 32
    /\ o_target = Some(<<31, 32>>)
    /\ Len(o_saved) = 1

\* C17: when a side exceeds max_size, the larger side becomes exactly
\* max_size and the other is scaled in proportion and rounded to the
\* nearest integer.
C17_OtherSideRounded ==
    (Resized /\ LargerSide > o_max_size) =>
        /\ LargerSideResized = o_max_size
        /\ SmallerSideResized = RoundOfScaled(SmallerSide, o_max_size, LargerSide)

\* C17 as the code has it: the larger side (the height when both are
\* equal) becomes exactly max_size; the other is int(side * (max_size /
\* larger)), the proportional value cut down to an integer, never rounded
\* up, and one below the proportional value when that is a whole number
\* the floating-point product falls just short of (49x49 at 16: 15x16).
C17_OtherSideTruncated ==
    (Resized /\ LargerSide > o_max_size) =>
        /\ LargerSideResized = o_max_size
        /\ SmallerSideResized * LargerSide <= SmallerSide * o_max_size
        /\ \/ SmallerSide * o_max_size < (SmallerSideResized + 1) * LargerSide
           \/ SmallerSide * o_max_size = (SmallerSideResized + 1) * LargerSide

C17_Witness ==
    /\ o_size = <<100, 35>>
    /\ o_max_size = 16
    /\ o_target = Some(<<16, 5>>)
    /\ Len(o_saved) = 1

\* C24: for every input size with width >= 1 and height >= 1 and every
\* accepted max_size, resize_image decides on a size whose width and
\* height are both >= 1, so that no such image (3000x1 included) makes the
\* resize fail.
C24_TargetAtLeastOne ==
    Resized =>
        /\ o_target[1][1] >= 1
        /\ o_target[1][2] >= 1
        /\ o_result # OptRaise("ResizeFailed")

\* ------------------------------------------------------ specifications
InitGif == GifInit /\ ProbeIdle /\ VideoIdle /\ RunIdle /\ CallIdle /\ ExtractIdle
    /\ OptIdle
SpecGif == InitGif /\ [][GifNext]_vars

InitProbe == ProbeInit /\ GifIdle /\ VideoIdle /\ RunIdle /\ CallIdle /\ ExtractIdle
    /\ OptIdle
SpecProbe == InitProbe /\ [][ProbeNext]_vars

InitVideo == VideoInit /\ GifIdle /\ ProbeIdle /\ RunIdle /\ CallIdle /\ ExtractIdle
    /\ OptIdle
SpecVideo == InitVideo /\ [][VideoNext]_vars

Init == RunInit /\ GifIdle /\ ProbeIdle /\ VideoIdle /\ CallIdle /\ ExtractIdle /\ OptIdle
Next == RunNext
Spec == Init /\ [][Next]_vars

InitCall == CallInit /\ GifIdle /\ ProbeIdle /\ VideoIdle /\ RunIdle /\ ExtractIdle
    /\ OptIdle
SpecCall == InitCall /\ [][CallNext]_vars

InitExtract ==
    ExtractInit /\ GifIdle /\ ProbeIdle /\ VideoIdle /\ RunIdle /\ CallIdle /\ OptIdle
SpecExtract == InitExtract /\ [][ExtractNext]_vars

InitOptimize ==
    OptInit /\ GifIdle /\ ProbeIdle /\ VideoIdle /\ RunIdle /\ CallIdle /\ ExtractIdle
SpecOptimize == InitOptimize /\ [][OptNext]_vars

====
